---- MODULE Spec2Model ----
(***************************************************************************)
(* Model of the judge core of alsit-testing: c_testing::invoke_testing     *)
(* (compile, scan the test directory, run every test case, build the       *)
(* report) together with the report types declared in main.rs.             *)
(*                                                                         *)
(* Text is modelled as a sequence of characters, a path as a record        *)
(* [stem, ext], the test directory as the set of file names it holds.      *)
(* Everything outside the program (the toolchain, the directory, the       *)
(* files' contents, the child process) is a nondeterministic choice made   *)
(* at the step where the program observes it.                              *)
(***************************************************************************)
EXTENDS Integers, Sequences, FiniteSets, TLC

(* ------------------------------ bounds -------------------------------- *)

\* Largest number of files in the test directory.
MaxFiles == 4

\* Longest text (expected output, program output) in characters.
MaxLen == 2

\* Largest test input, in bytes.
MaxInput == 2

\* Number of bytes the stdin pipe buffers before a write blocks.
PipeCapacity == MaxInput - 1

\* Number of characters the stdout pipe buffers before the child's write
\* blocks.
StdoutCapacity == MaxLen

(* ------------------------------- text --------------------------------- *)

Whitespace == {" "}

Alphabet == {"a"} \cup Whitespace

Strings == UNION {[1..n -> Alphabet] : n \in 0..MaxLen}

RECURSIVE trim_start(_)
\* str::trim_start: drops the leading whitespace.
trim_start(s) ==
    IF s = <<>> THEN <<>>
    ELSE IF Head(s) \in Whitespace THEN trim_start(Tail(s))
    ELSE s

RECURSIVE trim_end(_)
\* str::trim_end: drops the trailing whitespace.
trim_end(s) ==
    IF s = <<>> THEN <<>>
    ELSE IF s[Len(s)] \in Whitespace THEN trim_end(SubSeq(s, 1, Len(s) - 1))
    ELSE s

\* str::trim as used by diff_result.
trim(s) == trim_end(trim_start(s))

(* ------------------------- main.rs declarations ----------------------- *)

\* lazy_static TESTING_TIMEOUT_TIME_MILLS: the configured limit, read from
\* the environment variable TIMEOUT_TIME.
TESTING_TIMEOUT_TIME_MILLS == 1000

\* enum TestingOutcome.
TestingOutcome ==
    {"Success", "Timeout", "MemoryExceeded", "WrongOutput",
     "SlightlyWrongOutput", "InternalError"}

\* TestLog::outcome: the category of a per-test log is its variant's name.
outcome(log) ==
    CASE log.tag = "Success" -> "Success"
      [] log.tag = "Timeout" -> "Timeout"
      [] log.tag = "MemoryExceeded" -> "MemoryExceeded"
      [] log.tag = "WrongOutput" -> "WrongOutput"
      [] log.tag = "SlightlyWrongOutput" -> "SlightlyWrongOutput"
      [] log.tag = "InternalError" -> "InternalError"

(* ----------------------- c_testing.rs data types ---------------------- *)

\* Option::None and Option::Some.
None == [tag |-> "None"]

Some(x) == [tag |-> "Some", value |-> x]

\* enum TestOutcome of c_testing.rs: Timeout and InternalError are unit
\* variants, the two output variants carry expected and got.
Success == [tag |-> "Success"]

Timeout == [tag |-> "Timeout"]

InternalError == [tag |-> "InternalError"]

WrongOutput(expected, got) ==
    [tag |-> "WrongOutput", expected |-> expected, got |-> got]

SlightlyWrongOutput(expected, got) ==
    [tag |-> "SlightlyWrongOutput", expected |-> expected, got |-> got]

\* enum CompilationResult.
Successful == [tag |-> "Successful"]

CompilationError(text) == [tag |-> "CompilationError", text |-> text]

\* enum TestError.
TestError == {"WritingStdin", "SignalKill", "ReadingStdout"}

\* Result<TestOutcome, TestError>.
Ok(v) == [kind |-> "Ok", value |-> v]

Err(e) == [kind |-> "Err", error |-> e]

\* OneTestResult::new.
OneTestResult(test_id, test_result) ==
    [test_id |-> test_id, test_result |-> test_result]

\* struct InitialError, serialised as the report.
InitialError(compilation_message, internal_error) ==
    [shape |-> "InitialError",
     compilation_message |-> compilation_message,
     internal_error |-> internal_error]

\* The serialised list of OneTestResult, the report of a completed run.
TestList(l) == [shape |-> "TestList", tests |-> l]

\* No report has been returned.
NoReport == [shape |-> "NoReport"]

(* ------------------------------ messages ------------------------------ *)

MsgScan == "Error while scanning directory."

MsgStart == "Internal error occured while starting compilation process."

MsgUtf8 == "Compilation message couldn't be converted into UTF-8 string."

MsgSignal == "Compilation process terminated by sginal."

(* -------------------------- the verdict function ---------------------- *)

\* A plausible slip: the whitespace is trimmed from both texts.
diff_result_trim_both(expected, outcome_) ==
    IF expected = outcome_ THEN Success
    ELSE IF trim(expected) = trim(outcome_)
         THEN SlightlyWrongOutput(expected, outcome_)
    ELSE WrongOutput(expected, outcome_)

diff_result(expected, outcome_) ==
    IF expected = outcome_ THEN Success
    ELSE IF trim(expected) = outcome_
         THEN SlightlyWrongOutput(expected, outcome_)
    ELSE WrongOutput(expected, outcome_)

(* ------------------------------ file names ---------------------------- *)

Digits == {"0", "1", "2", "3", "4", "5", "6", "7", "8", "9"}

DigitValue(c) ==
    CASE c = "0" -> 0 [] c = "1" -> 1 [] c = "2" -> 2 [] c = "3" -> 3
      [] c = "4" -> 4 [] c = "5" -> 5 [] c = "6" -> 6 [] c = "7" -> 7
      [] c = "8" -> 8 [] c = "9" -> 9

\* Path of a file of the test directory: the stem is a sequence of
\* characters, ext is the extension ("" when the name has none).
Path(stem, ext) == [stem |-> stem, ext |-> ext]

\* The names a test directory is built from.
FileNames ==
    {Path(<<"1">>, "in"), Path(<<"0", "1">>, "in"), Path(<<"2">>, "in"),
     Path(<<"x">>, "in"), Path(<<"1">>, "out"), Path(<<"0", "1">>, "out"),
     Path(<<"2">>, "out"), Path(<<"3">>, "")}

\* str::parse::<u64> succeeds on a non-empty run of decimal digits.
Parses(stem) == stem /= <<>> /\ \A i \in 1..Len(stem) : stem[i] \in Digits

RECURSIVE ParseU64(_)
\* The value str::parse::<u64> yields: leading zeros do not count.
ParseU64(stem) ==
    IF stem = <<>> THEN 0
    ELSE 10 * ParseU64(SubSeq(stem, 1, Len(stem) - 1))
         + DigitValue(stem[Len(stem)])

\* get_id panics (unwrap) when the stem is not a number.
get_id_panics(path) == ~Parses(path.stem)

\* get_id: the extension is stripped and the rest parsed as u64.
get_id(path) == ParseU64(path.stem)

(* ------------------------------ the sort ------------------------------ *)

RECURSIVE InsertById(_, _)
\* Puts x behind the last element of the sorted s whose id is not larger.
InsertById(s, x) ==
    IF s = <<>> THEN <<x>>
    ELSE IF get_id(s[Len(s)]) <= get_id(x) THEN Append(s, x)
    ELSE Append(InsertById(SubSeq(s, 1, Len(s) - 1), x), s[Len(s)])

RECURSIVE InsertByIdDescending(_, _)
InsertByIdDescending(s, x) ==
    IF s = <<>> THEN <<x>>
    ELSE IF get_id(s[Len(s)]) >= get_id(x) THEN Append(s, x)
    ELSE Append(InsertByIdDescending(SubSeq(s, 1, Len(s) - 1), x), s[Len(s)])

RECURSIVE sort_by_reversed(_)
\* A plausible slip: the comparison is y_name.cmp(&x_name).
sort_by_reversed(files) ==
    IF files = <<>> THEN <<>>
    ELSE InsertByIdDescending(
             sort_by_reversed(SubSeq(files, 1, Len(files) - 1)),
             files[Len(files)])

RECURSIVE sort_by(_)
\* in_files.sort_by(|x, y| get_id(x).cmp(&get_id(y))): a stable sort,
\* ascending by id.
sort_by(files) ==
    IF files = <<>> THEN <<>>
    ELSE InsertById(sort_by(SubSeq(files, 1, Len(files) - 1)),
                    files[Len(files)])

(* ------------------------------ the compiler -------------------------- *)

\* The texts the toolchain may write to its standard error.
Diagnostics == {"", "main.c:1:1: error"}

\* What the toolchain does: whether it could be started, its exit code
\* (None when a signal ended it) and its standard error, which is valid
\* UTF-8 or not.
Toolchains ==
    [started : BOOLEAN, code : {Some(0), Some(1), None},
     utf8 : BOOLEAN, stderr : Diagnostics]

\* A plausible slip: the end by a signal is taken for a compile error.
compile_signal_as_error(tool) ==
    IF ~tool.started THEN Err(MsgStart)
    ELSE IF tool.code /= None /\ tool.code.value = 0 THEN Ok(Successful)
    ELSE IF tool.utf8 THEN Ok(CompilationError(tool.stderr))
    ELSE Err(MsgUtf8)

\* A plausible slip: every observable exit code counts as a success.
compile_any_code(tool) ==
    IF ~tool.started THEN Err(MsgStart)
    ELSE IF tool.code /= None THEN Ok(Successful)
    ELSE Err(MsgSignal)

\* compile(): Result<CompilationResult, String>.
compile(tool) ==
    IF ~tool.started THEN Err(MsgStart)
    ELSE IF tool.code /= None
         THEN IF tool.code.value = 0 THEN Ok(Successful)
              ELSE IF tool.utf8 THEN Ok(CompilationError(tool.stderr))
              ELSE Err(MsgUtf8)
    ELSE Err(MsgSignal)

(* ------------------------------- state -------------------------------- *)

VARIABLES
    pc,             \* the position of invoke_testing
    dir_readable,   \* whether read_dir(TEST_PATH) succeeds
    dir,            \* the names of the files of the test directory
    toolchain,      \* what the toolchain did, once it has run
    compile_result, \* what compile() returned
    compile_calls,  \* how often the toolchain was invoked
    in_files,       \* run_testing: the Vec of input files
    idx,            \* run_testing: position of the for loop in in_files
    list,           \* run_testing: the LinkedList of OneTestResult
    test_id,        \* run_testing: the id of the test case being run
    in_content,     \* test: the number of bytes of the input file
    out_content,    \* test: the text of the expected-output file
    child,          \* test: the child process
    output,         \* test: the text read from the child's stdout
    test_ret,       \* what test() returned
    spawn_count,    \* how many child processes were spawned
    running,        \* how many spawned child processes are still running
    report          \* what invoke_testing returned

vars ==
    <<pc, dir_readable, dir, toolchain, compile_result, compile_calls,
      in_files, idx, list, test_id, in_content, out_content, child,
      output, test_ret, spawn_count, running, report>>

\* The value of a local that holds nothing.
Unset == [tag |-> "Unset"]

NoChild == [alive |-> FALSE, stdin |-> "-", finish |-> "-", out_len |-> 0]

\* How the child treats its standard input: it reads all of it, the read
\* end is already closed when the runner writes, or the read end stays
\* open for as long as the child lives and is never read.
StdinBehaviours == {"reads", "closed", "ignores"}

\* How the child ends: with an exit code, by a signal, or not within the
\* timeout.
FinishBehaviours == {"exit_zero", "exit_nonzero", "signal", "hang"}

\* How much the child writes to its standard output before it ends: up to
\* one character more than the pipe buffers.
OutputLengths == 0..(StdoutCapacity + 1)

\* The child ends within the timeout although nobody reads its stdout:
\* test() reads the pipe only behind the wait, so a child whose output does
\* not fit into the pipe stays blocked in its write.
Ends(c) == c.finish /= "hang" /\ c.out_len <= StdoutCapacity

Init ==
    /\ pc = "compile"
    /\ dir_readable \in BOOLEAN
    /\ dir \in {d \in SUBSET FileNames : Cardinality(d) <= MaxFiles}
    /\ (~dir_readable => dir = {})
    /\ toolchain = Unset
    /\ compile_result = Unset
    /\ compile_calls = 0
    /\ in_files = <<>>
    /\ idx = 0
    /\ list = <<>>
    /\ test_id = 0
    /\ in_content = 0
    /\ out_content = <<>>
    /\ child = NoChild
    /\ output = <<>>
    /\ test_ret = Unset
    /\ spawn_count = 0
    /\ running = 0
    /\ report = NoReport

runVars == <<in_files, idx, list, test_id>>

testVars ==
    <<in_content, out_content, child, output, test_ret, spawn_count, running>>

envVars == <<dir_readable, dir>>

compVars == <<toolchain, compile_result, compile_calls>>

\* A panic (a failed unwrap) unwinds the program: nothing is returned.
Panic ==
    /\ pc' = "panicked"
    /\ UNCHANGED <<envVars, compVars, runVars, testVars, report>>

(* ---------------------------- invoke_testing -------------------------- *)

\* invoke_testing, lines 55-72: the compiler runs and its result decides
\* whether a report is returned at once.
InvokeCompile ==
    /\ pc = "compile"
    /\ \E tool \in Toolchains :
         LET r == compile(tool) IN
         /\ toolchain' = tool
         /\ compile_result' = r
         /\ compile_calls' = compile_calls + 1
         /\ IF r.kind = "Ok"
            THEN IF r.value = Successful
                 THEN pc' = "scan" /\ report' = report
                 ELSE /\ report' = InitialError(Some(r.value.text), None)
                      /\ pc' = "done"
            ELSE /\ report' = InitialError(None, Some(r.error))
                 /\ pc' = "done"
    /\ UNCHANGED <<envVars, runVars, testVars>>

\* invoke_testing, lines 74-81, Ok(list): the list is serialised as the
\* report.
InvokeReturn ==
    /\ pc = "return"
    /\ report' = TestList(list)
    /\ pc' = "done"
    /\ UNCHANGED <<envVars, compVars, runVars, testVars>>

(* ------------------------------ run_testing --------------------------- *)

\* The orders in which read_dir may yield the directory's entries.
ReadDirOrders(d) ==
    {o \in [1..Cardinality(d) -> d] :
        \A i, j \in 1..Cardinality(d) : i /= j => o[i] /= o[j]}

IsIn(path) == path.ext = "in"

\* A plausible slip: a directory that cannot be listed counts as empty.
RunTestingScanNoError ==
    /\ pc = "scan"
    /\ \E order \in ReadDirOrders(dir) :
         /\ in_files' = SelectSeq(order, IsIn)
         /\ pc' = "sort"
         /\ UNCHANGED <<envVars, compVars, idx, list, test_id,
                        testVars, report>>

\* run_testing, lines 166-185: the directory is listed and the files with
\* the extension "in" are collected in listing order. An entry that cannot
\* be read panics (file.unwrap()).
RunTestingScan ==
    /\ pc = "scan"
    /\ IF ~dir_readable
       THEN /\ report' = InitialError(None, Some(MsgScan))
            /\ pc' = "done"
            /\ UNCHANGED <<envVars, compVars, runVars, testVars>>
       ELSE \E entry_ok \in BOOLEAN :
              IF ~entry_ok /\ dir /= {}
              THEN Panic
              ELSE \E order \in ReadDirOrders(dir) :
                     /\ in_files' = SelectSeq(order, IsIn)
                     /\ pc' = "sort"
                     /\ UNCHANGED <<envVars, compVars, idx, list, test_id,
                                    testVars, report>>

\* run_testing, lines 187-195: the sort calls get_id on every file as soon
\* as there are two of them.
RunTestingSort ==
    /\ pc = "sort"
    /\ IF Len(in_files) >= 2
          /\ \E i \in 1..Len(in_files) : get_id_panics(in_files[i])
       THEN Panic
       ELSE /\ in_files' = sort_by(in_files)
            /\ list' = <<>>
            /\ idx' = 1
            /\ pc' = "loop"
            /\ UNCHANGED <<envVars, compVars, test_id, testVars, report>>

\* run_testing, lines 197-203: the next file of the loop, or the end of it.
RunTestingNext ==
    /\ pc = "loop"
    /\ IF idx > Len(in_files)
       THEN /\ pc' = "return"
            /\ UNCHANGED <<envVars, compVars, runVars, testVars, report>>
       ELSE IF get_id_panics(in_files[idx])
       THEN Panic
       ELSE /\ test_id' = get_id(in_files[idx])
            /\ pc' = "test_read"
            /\ UNCHANGED <<envVars, compVars, in_files, idx, list,
                           testVars, report>>

\* A plausible slip: a test whose run failed internally is run again.
RunTestingMatchRetry ==
    /\ pc = "match"
    /\ IF test_ret.kind = "Err"
       THEN /\ list' = list
            /\ idx' = idx
            /\ pc' = "spawn"
       ELSE IF test_ret.value = Success
       THEN /\ list' = Append(list, OneTestResult(test_id, Success))
            /\ idx' = idx + 1
            /\ pc' = "loop"
       ELSE /\ list' = Append(list, OneTestResult(test_id, test_ret.value))
            /\ idx' = idx
            /\ pc' = "return"
    /\ in_content' = in_content
    /\ out_content' = out_content
    /\ output' = <<>>
    /\ child' = NoChild
    /\ test_ret' = Unset
    /\ UNCHANGED <<envVars, compVars, in_files, test_id, spawn_count, running,
                   report>>

\* A plausible slip: the loop goes on after a failed test.
RunTestingMatchNoBreak ==
    /\ pc = "match"
    /\ list' = Append(list, OneTestResult(test_id,
                  IF test_ret.kind = "Err" THEN InternalError
                  ELSE test_ret.value))
    /\ idx' = idx + 1
    /\ pc' = "loop"
    /\ in_content' = 0
    /\ out_content' = <<>>
    /\ output' = <<>>
    /\ child' = NoChild
    /\ test_ret' = Unset
    /\ UNCHANGED <<envVars, compVars, in_files, test_id, spawn_count, running,
                   report>>

\* run_testing, lines 205-217: the result of test() is appended; anything
\* but Ok(Success) ends the loop.
RunTestingMatch ==
    /\ pc = "match"
    /\ IF test_ret.kind = "Err"
       THEN /\ list' = Append(list, OneTestResult(test_id, InternalError))
            /\ idx' = idx
            /\ pc' = "return"
       ELSE IF test_ret.value = Success
       THEN /\ list' = Append(list, OneTestResult(test_id, Success))
            /\ idx' = idx + 1
            /\ pc' = "loop"
       ELSE /\ list' = Append(list, OneTestResult(test_id, test_ret.value))
            /\ idx' = idx
            /\ pc' = "return"
    /\ in_content' = 0
    /\ out_content' = <<>>
    /\ output' = <<>>
    /\ child' = NoChild
    /\ test_ret' = Unset
    /\ UNCHANGED <<envVars, compVars, in_files, test_id, spawn_count, running,
                   report>>

(* --------------------------------- test ------------------------------- *)

\* test, lines 104-105: both files are read as text; a file that is
\* missing or is not valid UTF-8 panics (unwrap).
TestReadFiles ==
    /\ pc = "test_read"
    /\ \E in_ok \in BOOLEAN, out_ok \in BOOLEAN :
         IF ~in_ok \/ ~out_ok
            \/ Path(in_files[idx].stem, "out") \notin dir
         THEN Panic
         ELSE \E n \in 0..MaxInput, expected \in Strings :
                /\ in_content' = n
                /\ out_content' = expected
                /\ pc' = "spawn"
                /\ UNCHANGED <<envVars, compVars, runVars, child, output,
                               test_ret, spawn_count, running, report>>

\* test, lines 107-115: the compiled program is spawned with piped stdin
\* and stdout; a failure to spawn panics (unwrap).
TestSpawn ==
    /\ pc = "spawn"
    /\ \E spawn_ok \in BOOLEAN :
         IF ~spawn_ok
         THEN Panic
         ELSE \E s \in StdinBehaviours, f \in FinishBehaviours,
                 n \in OutputLengths :
                /\ child' = [alive |-> TRUE, stdin |-> s, finish |-> f,
                             out_len |-> n]
                /\ spawn_count' = spawn_count + 1
                /\ running' = running + 1
                /\ pc' = "write"
                /\ UNCHANGED <<envVars, compVars, runVars, in_content,
                               out_content, output, test_ret, report>>

\* What write_all(in_content) on the child's stdin does: "ok", "err"
\* (broken pipe) or "blocked" (the pipe is full, its read end open).
WriteAll(n, c) ==
    IF n = 0 \/ c.stdin = "reads" THEN "ok"
    ELSE IF c.stdin = "closed" THEN "err"
    ELSE IF n <= PipeCapacity THEN "ok"
    ELSE IF ~Ends(c) THEN "blocked"
    ELSE "err"

\* test, lines 117-127: the input is written to the child's stdin. On a
\* write error test() returns at once, without waiting for the child and
\* without killing it: the child has ended by then (it must have when it
\* never closes its stdin itself) or it runs on.
TestWrite ==
    /\ pc = "write"
    /\ \E ended \in BOOLEAN :
         LET w == WriteAll(in_content, child) IN
         /\ ended => (w = "err" /\ Ends(child))
         /\ (w = "err" /\ child.stdin = "ignores") => ended
         /\ pc' = CASE w = "ok" -> "wait"
                    [] w = "err" -> "match"
                    [] w = "blocked" -> "write_blocked"
         /\ test_ret' = IF w = "err" THEN Err("WritingStdin") ELSE test_ret
         /\ child' = [child EXCEPT !.stdin = "-", !.alive = ~ended]
         /\ running' = IF ended THEN running - 1 ELSE running
    /\ UNCHANGED <<envVars, compVars, runVars, in_content, out_content,
                   output, spawn_count, report>>

\* A plausible slip: status.success() is tested instead of status.code(),
\* so that an exit code other than 0 counts as an abnormal end.
TestWaitChecksSuccess ==
    /\ pc = "wait"
    /\ \E wait_ok \in BOOLEAN :
         IF ~wait_ok
         THEN Panic
         ELSE /\ child' = [child EXCEPT !.alive = FALSE]
              /\ running' = running - 1
              /\ IF Ends(child) /\ child.finish = "exit_zero"
                 THEN pc' = "read_stdout" /\ test_ret' = test_ret
                 ELSE IF Ends(child)
                 THEN pc' = "match" /\ test_ret' = Err("SignalKill")
                 ELSE pc' = "match" /\ test_ret' = Ok(Timeout)
              /\ UNCHANGED <<envVars, compVars, runVars, in_content,
                             out_content, output, spawn_count, report>>

\* test, lines 129-149: the bounded wait. A wait that fails panics
\* (unwrap); an exit code leads to the read of stdout, a signal to
\* SignalKill, the expiry of the timeout to kill() and Timeout.
TestWait ==
    /\ pc = "wait"
    /\ \E wait_ok \in BOOLEAN :
         IF ~wait_ok
         THEN Panic
         ELSE /\ child' = [child EXCEPT !.alive = FALSE]
              /\ running' = running - 1
              /\ IF Ends(child) /\ child.finish \in {"exit_zero", "exit_nonzero"}
                 THEN pc' = "read_stdout" /\ test_ret' = test_ret
                 ELSE IF Ends(child) /\ child.finish = "signal"
                 THEN pc' = "match" /\ test_ret' = Err("SignalKill")
                 ELSE pc' = "match" /\ test_ret' = Ok(Timeout)
              /\ UNCHANGED <<envVars, compVars, runVars, in_content,
                             out_content, output, spawn_count, report>>

\* test, lines 135-140: stdout, which holds what the child wrote, is read
\* to its end as text and compared with the expected output.
TestReadStdout ==
    /\ pc = "read_stdout"
    /\ \E utf8 \in BOOLEAN,
          got \in {s \in Strings : Len(s) = child.out_len} :
         IF ~utf8
         THEN /\ test_ret' = Err("ReadingStdout")
              /\ output' = output
         ELSE /\ output' = got
              /\ test_ret' = Ok(diff_result(out_content, got))
    /\ pc' = "match"
    /\ UNCHANGED <<envVars, compVars, runVars, in_content, out_content,
                   child, spawn_count, running, report>>

(* ---------------------------- specification --------------------------- *)

Next ==
    \/ InvokeCompile
    \/ RunTestingScan
    \/ RunTestingSort
    \/ RunTestingNext
    \/ TestReadFiles
    \/ TestSpawn
    \/ TestWrite
    \/ TestWait
    \/ TestReadStdout
    \/ RunTestingMatch
    \/ InvokeReturn

Spec == Init /\ [][Next]_vars

(* ------------------------- auxiliary definitions ---------------------- *)

Last(s) == s[Len(s)]

\* The positions of run_testing behind the sort of in_files.
AfterSort ==
    {"loop", "test_read", "spawn", "write", "write_blocked", "wait",
     "read_stdout", "match", "return"}

\* The input files of the directory: the discovered set of test cases.
Discovered == {p \in dir : IsIn(p)}

\* e is a, which has no whitespace at either end, between two runs of
\* whitespace.
TrimsTo(e, a) ==
    /\ a = <<>> \/ (a[1] \notin Whitespace /\ a[Len(a)] \notin Whitespace)
    /\ \E i \in 0..Len(e) :
         /\ i + Len(a) <= Len(e)
         /\ SubSeq(e, i + 1, i + Len(a)) = a
         /\ \A k \in 1..Len(e) :
              (k <= i \/ k > i + Len(a)) => e[k] \in Whitespace

\* The run-level outcome a report carries.
Absent == "Absent"

ReportTestingOutcome(r) ==
    IF "testing_outcome" \in DOMAIN r THEN r.testing_outcome ELSE Absent

\* The report shapes of ProgramResult, read off the serialised value.
IsCompilationProblem(r) ==
    /\ r.shape = "InitialError"
    /\ r.compilation_message /= None
    /\ r.internal_error = None

IsInternalProblem(r) ==
    /\ r.shape = "InitialError"
    /\ r.compilation_message = None
    /\ r.internal_error /= None

IsTestingResult(r) == r.shape = "TestList"

\* The toolchain has run and left with an exit code other than 0.
CompileFailedWithCode ==
    IF toolchain = Unset THEN FALSE
    ELSE toolchain.started /\ toolchain.code = Some(1)

(* -------------------------------- C1 ---------------------------------- *)

\* C1: fail-fast. Every element of the result sequence but the last is
\* Success; a non-Success outcome returned by test() is appended as it is
\* and ends the loop; once the last element is not Success the sequence no
\* longer changes and no child process is spawned any more.
FailFast ==
    /\ [](\A i \in 1..(Len(list) - 1) : list[i].test_result = Success)
    /\ [][(pc = "match" /\ test_ret.kind = "Ok" /\ test_ret.value /= Success)
            => /\ list' = Append(list, OneTestResult(test_id, test_ret.value))
               /\ pc' = "return"]_vars
    /\ [][(list /= <<>> /\ Last(list).test_result /= Success)
            => /\ list' = list
               /\ spawn_count' = spawn_count
               /\ pc' \in {"return", "done"}]_vars

\* A run that stopped at a failed first test with a second test pending.
FailFastWitness ==
    /\ pc = "done"
    /\ Len(list) = 1
    /\ list[1].test_result.tag \in {"Timeout", "WrongOutput", "SlightlyWrongOutput"}
    /\ Len(in_files) = 2
    /\ spawn_count = 1

(* -------------------------------- C2 ---------------------------------- *)

\* C2: at every point of the run the ids of the result sequence do not
\* decrease, and the sequence is a prefix of the discovered input files
\* sorted ascending by id.
TestsArePrefix ==
    /\ \A i, j \in 1..Len(list) : i < j => list[i].test_id <= list[j].test_id
    /\ Len(list) <= Len(in_files)
    /\ \A i \in 1..Len(list) : list[i].test_id = get_id(in_files[i])
    /\ (pc \in AfterSort \/ IsTestingResult(report)) =>
         /\ Len(in_files) = Cardinality(Discovered)
         /\ {in_files[i] : i \in 1..Len(in_files)} = Discovered
         /\ \A i, j \in 1..Len(in_files) :
              i < j => get_id(in_files[i]) <= get_id(in_files[j])

\* Two test cases were run in the order of their ids.
TestsArePrefixWitness ==
    /\ pc = "done"
    /\ Len(list) = 2
    /\ list[1].test_id = 1
    /\ list[2].test_id = 2

(* -------------------------------- C3 ---------------------------------- *)

\* C3 as stated: whenever the toolchain leaves with a non-zero exit code
\* the report is the CompilationProblem with its standard error, the result
\* sequence is empty and no child process was spawned.
CompileErrorReportedAlways ==
    CompileFailedWithCode =>
        /\ pc = "done"
        /\ report = InitialError(Some(toolchain.stderr), None)
        /\ list = <<>>
        /\ spawn_count = 0

\* C3, amended: when the toolchain leaves with a non-zero exit code and its
\* standard error is valid UTF-8, the report is the CompilationProblem
\* with that text; whatever the standard error is, the result sequence is
\* empty and no child process is ever spawned.
CompileErrorReported ==
    CompileFailedWithCode =>
        /\ pc = "done"
        /\ toolchain.utf8 =>
             /\ IsCompilationProblem(report)
             /\ report.compilation_message = Some(toolchain.stderr)
        /\ list = <<>>
        /\ spawn_count = 0

\* The compiler rejected the source and its diagnostic is the report.
CompileErrorReportedWitness ==
    /\ pc = "done"
    /\ CompileFailedWithCode
    /\ report = InitialError(Some("main.c:1:1: error"), None)

(* -------------------------------- C4 ---------------------------------- *)

\* C4: a run in which every executed test matched ends with the run-level
\* outcome Success and with as many entries as there are test cases.
AllMatchGivesSuccess ==
    (/\ pc = "done"
     /\ IsTestingResult(report)
     /\ \A i \in 1..Len(report.tests) : report.tests[i].test_result = Success)
    => /\ ReportTestingOutcome(report) = "Success"
       /\ Len(report.tests) = Cardinality(Discovered)

(* -------------------------------- C5 ---------------------------------- *)

\* C5: the run-level outcome of a report with tests is the category of the
\* last test, of a report without tests it is Success, and the tests are
\* empty only if there is no test case.
OutcomeIsLastOutcome ==
    (pc = "done" /\ IsTestingResult(report)) =>
        /\ ReportTestingOutcome(report) =
             IF report.tests = <<>> THEN "Success"
             ELSE outcome(Last(report.tests).test_result)
        /\ report.tests = <<>> => Discovered = {}

(* -------------------------------- C6 ---------------------------------- *)

\* C6: the verdict on an output that was read is Success when it equals
\* the expected text, SlightlyWrongOutput with both texts when it differs
\* from the expected text but is that text without the whitespace at its
\* ends, and WrongOutput with both texts otherwise.
ClassifyIsCorrect ==
    (/\ pc = "match"
     /\ test_ret.kind = "Ok"
     /\ Ends(child)
     /\ child.finish \in {"exit_zero", "exit_nonzero"})
    => LET e == out_content
           a == output
           r == test_ret.value
       IN  /\ e = a => r = Success
           /\ (e /= a /\ TrimsTo(e, a)) =>
                r = [tag |-> "SlightlyWrongOutput", expected |-> e, got |-> a]
           /\ (e /= a /\ ~TrimsTo(e, a)) =>
                r = [tag |-> "WrongOutput", expected |-> e, got |-> a]

\* An output with a leading blank was compared with the expected text
\* without it: the blank of the actual output is not trimmed.
ClassifyIsCorrectWitness ==
    /\ pc = "match"
    /\ out_content = <<"a">>
    /\ output = <<" ", "a">>
    /\ test_ret = Ok(WrongOutput(<<"a">>, <<" ", "a">>))

(* -------------------------------- C7 ---------------------------------- *)

\* C7: the test of a child that does not finish within the timeout gets
\* the entry Timeout with the configured limit, and the loop ends with it.
HangGivesTimeout ==
    [][(pc = "match" /\ child.finish = "hang")
         => /\ list' = Append(list, OneTestResult(test_id,
                  [tag |-> "Timeout",
                   time_limit_millis |-> TESTING_TIMEOUT_TIME_MILLS]))
            /\ pc' = "return"]_vars

(* -------------------------------- C8 ---------------------------------- *)

\* C8: no invocation panics, and one that has ended has returned a report
\* of one of the three shapes.
AlwaysOneReport ==
    /\ pc /= "panicked"
    /\ pc = "done" =>
         \/ IsCompilationProblem(report)
         \/ IsInternalProblem(report)
         \/ IsTestingResult(report)
    /\ pc /= "done" => report = NoReport

(* -------------------------------- C9 ---------------------------------- *)

\* C9: an error returned by test() is appended as an InternalError entry
\* of that test that carries a description of the error, and ends the loop.
ErrorEntryIsDescribed ==
    [][(pc = "match" /\ test_ret.kind = "Err")
         => /\ pc' = "return"
            /\ Len(list') = Len(list) + 1
            /\ SubSeq(list', 1, Len(list)) = list
            /\ Last(list').test_id = test_id
            /\ Last(list').test_result.tag = "InternalError"
            /\ "message" \in DOMAIN Last(list').test_result]_vars

(* -------------------------------- C10 --------------------------------- *)

\* C10 as stated: a run whose test directory cannot be listed reports the
\* scan error, whatever the compiler did.
ScanErrorReportedAlways ==
    (pc = "done" /\ ~dir_readable) =>
        report = InitialError(None, Some(MsgScan))

\* C10, amended: when the compilation succeeds and the test directory
\* cannot be listed, the report is the InternalProblem "Error while
\* scanning directory." without a compilation message and without tests.
ScanErrorReported ==
    (~dir_readable /\ compile_result = Ok(Successful) /\ pc /= "scan") =>
        /\ pc = "done"
        /\ report = InitialError(None, Some(MsgScan))
        /\ list = <<>>
        /\ spawn_count = 0

\* The source compiled and the scan of the directory failed.
ScanErrorReportedWitness ==
    /\ pc = "done"
    /\ ~dir_readable
    /\ compile_result = Ok(Successful)
    /\ report = InitialError(None, Some(MsgScan))

(* -------------------------------- C11 --------------------------------- *)

\* C11: the write of the test input never leaves the runner blocked: the
\* runner is never stuck in write_all with the timeout not yet armed.
WriteNeverBlocks == pc /= "write_blocked"

(* -------------------------------- C12 --------------------------------- *)

\* C12: at most one child process runs at any time, none runs once test()
\* has returned or the report is produced, and the child of a test that
\* timed out has been killed when test() returns.
NoLeakedChild ==
    /\ running <= 1
    /\ pc \in {"match", "loop", "test_read", "spawn", "return", "done"}
         => running = 0
    /\ pc = "match" => ~child.alive

(* -------------------------------- C13 --------------------------------- *)

\* C13: no two entries of the result sequence carry the same test id.
TestIdsUnique ==
    \A i, j \in 1..Len(list) : i /= j => list[i].test_id /= list[j].test_id

(* -------------------------------- C14 --------------------------------- *)

\* C14: what the toolchain did decides the result of the compiler adapter:
\* not started, ended by a signal, or a non-zero exit code with a standard
\* error that is not text give an internal failure; the exit code 0 gives
\* Successful; a non-zero exit code with a textual standard error gives
\* CompilationError with that text. An internal failure is reported as
\* InternalProblem and a compile error as CompilationProblem, never the
\* other way round.
CompilerAdapterMapping ==
    toolchain /= Unset =>
        LET t == toolchain
            r == compile_result
            nonzero == t.code /= None /\ t.code /= Some(0)
        IN  /\ ~t.started => r.kind = "Err"
            /\ (t.started /\ t.code = Some(0)) => r = Ok(Successful)
            /\ (t.started /\ nonzero /\ t.utf8) =>
                 r = Ok([tag |-> "CompilationError", text |-> t.stderr])
            /\ (t.started /\ nonzero /\ ~t.utf8) => r.kind = "Err"
            /\ (t.started /\ t.code = None) => r.kind = "Err"
            /\ r.kind = "Err" =>
                 /\ IsInternalProblem(report)
                 /\ report.internal_error = Some(r.error)
            /\ (r.kind = "Ok" /\ r.value /= Successful) =>
                 /\ IsCompilationProblem(report)
                 /\ report.compilation_message = Some(r.value.text)
            /\ r = Ok(Successful) => ~IsCompilationProblem(report)

\* The toolchain was ended by a signal and the report is the internal
\* failure.
CompilerAdapterMappingWitness ==
    /\ toolchain /= Unset
    /\ toolchain.started
    /\ toolchain.code = None
    /\ compile_result = Err(MsgSignal)
    /\ report = InitialError(None, Some(MsgSignal))

(* -------------------------------- C17 --------------------------------- *)

\* C17: only the test of a child that does not end of its own accord gets
\* Timeout, whatever the size of its output.
TimeoutOnlyWhenHanging ==
    (pc = "match" /\ test_ret = Ok(Timeout)) => child.finish = "hang"

(* -------------------------------- C15 --------------------------------- *)

\* C15: when the child has ended within the timeout, the wait leads to the
\* read of stdout for every exit code, zero or not, and to SignalKill
\* without a read when there is no exit code; an output that was read and
\* equals the expected text is Success whatever the exit code, and a
\* child ended by a signal is never given a verdict nor Timeout.
ExitCodeDecides ==
    /\ [][(pc = "wait" /\ pc' /= "panicked" /\ Ends(child))
            => IF child.finish = "signal"
               THEN pc' = "match" /\ test_ret' = Err("SignalKill")
               ELSE pc' = "read_stdout" /\ test_ret' = Unset]_vars
    /\ [](/\ pc = "match"
          /\ Ends(child)
          /\ test_ret /= Err("WritingStdin")
          => IF child.finish = "signal"
             THEN test_ret = Err("SignalKill") /\ output = <<>>
             ELSE \/ test_ret = Err("ReadingStdout")
                  \/ /\ test_ret.kind = "Ok"
                     /\ test_ret.value.tag \in
                          {"Success", "WrongOutput", "SlightlyWrongOutput"}
                     /\ test_ret.value = Success <=> output = out_content)

\* A child that left with an exit code other than 0 passed its test.
ExitCodeDecidesWitness ==
    /\ pc = "match"
    /\ child.finish = "exit_nonzero"
    /\ output = <<"a">>
    /\ test_ret = Ok(Success)

(* -------------------------------- C16 --------------------------------- *)

\* C16: the compiler is invoked once, and successfully, before any child
\* is spawned; the k-th child is spawned for the k-th input file, whose
\* entry is not yet written, so no test case is spawned twice; the wait is
\* entered only from a write that succeeded, the write only from the
\* spawn; and every return of test() adds exactly one entry, the only way
\* an entry is added.
SingleExecution ==
    /\ [](compile_calls <= 1 /\ (pc /= "compile" => compile_calls = 1))
    /\ [](spawn_count > 0 =>
            compile_calls = 1 /\ compile_result = Ok(Successful))
    /\ [][spawn_count' /= spawn_count
            => /\ pc = "spawn" /\ pc' = "write"
               /\ spawn_count' = spawn_count + 1
               /\ spawn_count = Len(list)
               /\ idx = spawn_count + 1]_vars
    /\ [][(pc' = "write" /\ pc /= "write") => pc = "spawn"]_vars
    /\ [][(pc' = "wait" /\ pc /= "wait")
            => pc = "write" /\ WriteAll(in_content, child) = "ok"]_vars
    /\ [][pc = "match" => Len(list') = Len(list) + 1]_vars
    /\ [][Len(list') /= Len(list)
            => pc = "match" /\ Len(list') = Len(list) + 1]_vars

\* Two test cases were run, each with one child, after one compilation.
SingleExecutionWitness ==
    /\ pc = "done"
    /\ compile_calls = 1
    /\ spawn_count = 2
    /\ Len(list) = 2

====
